---- MODULE Spec2Model ----
(***************************************************************************)
(* bevy_winit accessibility bridge (crates/bevy_winit/src/accessibility.rs) *)
(*                                                                         *)
(* The five systems of AccessibilityPlugin, the per-window action queues    *)
(* filled by the accessibility backend (do_action) and the entity store,    *)
(* window system and focus source they react to.                            *)
(***************************************************************************)
EXTENDS Integers, Sequences, FiniteSets, TLC

\* ------------------------------------------------------------------ bounds
\* Entity handles are 0..MaxEntity.
MaxEntity == 1
\* WindowFocused events pending for handle_focus.
MaxFocusEvents == 2
\* WindowClosed events pending for window_closed.
MaxClosedEvents == 1
\* Action requests the backend issues in one behaviour.
MaxRequests == 2
\* Backend threads calling do_action.
NumProducers == 2
\* Width of an entity handle: the 64 bits of Entity::to_bits, scaled down.
HandleBits == 5

Entities == 0..MaxEntity
Producers == 1..NumProducers

\* ------------------------------------------------------------------ codec
\* Option<NodeId>::None. NodeId wraps a NonZeroU128, so 0 is no identifier.
None == 0
\* Option<Entity>::None.
NoEntity == -1

\* The handle domain: to_bits() is below HandleLimit.
HandleLimit == 2 ^ HandleBits
MaxHandle == HandleLimit - 1

\* A call that panicked returns no value.
Panic == -2

\* Mutant: the identifier is the handle itself.
to_node_id_NoOffset(entity) == entity % HandleLimit

\* Entity::to_node_id. self.to_bits() + 1 is an addition of the handle's width: at the
\* greatest handle it panics where overflow is checked and wraps to 0 where it is not,
\* and NonZeroU128::new(0).unwrap() panics.
to_node_id(entity) ==
    IF (entity + 1) % HandleLimit = 0 THEN Panic ELSE (entity + 1) % HandleLimit

\* Mutant: the identifier is taken for the handle.
from_node_id_NoOffset(id) == id % HandleLimit

\* AccessKitEntityExt::from_node_id: (id.0.get() - 1) as u64
from_node_id(id) == (id - 1) % HandleLimit

\* WindowId::primary().as_u128(): a non-zero value outside the range of the
\* encoded entity identifiers 1..MaxEntity+1.
PrimaryWindow == MaxEntity + 2
OtherWindow == PrimaryWindow + 1
Windows == {PrimaryWindow, OtherWindow}

\* NodeId(NonZeroU128::new(WindowId::primary().as_u128()).unwrap())
root_id == PrimaryWindow

\* LastFocus::from_entity
from_entity(entity) == IF entity = NoEntity THEN None ELSE to_node_id(entity)

\* LastFocus::entity
last_focus_entity(focus) == IF focus = None THEN NoEntity ELSE from_node_id(focus)

\* ------------------------------------------------------------------ state
VARIABLES
    nodes,        \* entities holding an AccessibilityNode
    changed,      \* Changed<AccessibilityNode>: added or mutated since the update pass last ran
    removed,      \* RemovedComponents<AccessibilityNode>: removed since the removal pass last ran
    lastFocus,    \* LastFocus: a node identifier or None
    created,      \* windows that have been opened
    adapters,     \* Adapters: windows with a registered adapter
    handlers,     \* Handlers: windows with a registered action handler
    focusEvents,  \* WindowFocused events not yet read by handle_focus
    closedEvents, \* WindowClosed events not yet read by window_closed
    queue,        \* per window: the VecDeque behind its WinitActionHandler
    mutex,        \* per window: who holds the queue's Mutex
    prodPc,       \* per backend thread: "idle", or "push" (in do_action, lock held)
    prodReq,      \* per backend thread: the request and handler of its do_action call
    nextReq,      \* next request number the backend issues
    pushed,       \* per window: the requests in the order push_back stored them
    orphans,      \* requests stored while their window had no registered handler
    midDrain,     \* requests stored while this cycle's poll_receivers was running
    actions,      \* EventWriter<ActionRequest>: requests sent to the application
    ran,          \* systems started in the current cycle
    pollPc,       \* poll_receivers: "idle", "iter" (between handlers), "drain" (lock held)
    pollTodo,     \* poll_receivers: handlers still to visit
    pollCur,      \* poll_receivers: the handler being drained
    pollSeen,     \* requests that were queued in a registered handler when the drain began
    last,         \* the system step just taken: what it read and the updates it sent
    poisoned,     \* windows whose queue Mutex is poisoned
    focusGone,    \* the tracked focus a removal pass cleared, until a focus is noted again
    codec         \* a call of the identifier codec: its input, its position and its results

vars == <<nodes, changed, removed, lastFocus, created, adapters, handlers,
          focusEvents, closedEvents, queue, mutex, prodPc, prodReq, nextReq,
          pushed, orphans, midDrain, actions, ran, pollPc, pollTodo, pollCur, pollSeen, last,
          poisoned, focusGone, codec>>

treeVars == <<nodes, changed, removed>>
queueVars == <<queue, mutex, prodPc, prodReq, nextReq, pushed, orphans, midDrain, actions>>
pollVars == <<pollPc, pollTodo, pollCur, pollSeen>>

\* Mutex holders: nobody, a backend thread (its number), or the main thread.
Free == 0
MainThread == NumProducers + 1

PreUpdate == {"handle_focus", "window_closed", "poll_receivers", "update_accessibility_nodes"}
PostUpdate == {"remove_accessibility_nodes"}

Range(s) == {s[i] : i \in 1..Len(s)}

\* The orders in which a query may yield the entities of S.
Orderings(S) ==
    {s \in [1..Cardinality(S) -> S] : \A i, j \in 1..Cardinality(S) : i # j => s[i] # s[j]}

\* A backend thread outside do_action holds no request.
NoRequest == [id |-> 0, window |-> PrimaryWindow]

\* No tracked focus has been lost to a removal since the focus was last noted.
NoLoss == [id |-> None, adapter |-> FALSE]

\* No codec call is under way.
NoCall == [pc |-> "none", h |-> NoEntity, id |-> None, back |-> NoEntity]

NoPass ==
    [sys |-> "none", focus |-> None, changed |-> {}, removed |-> {}, nodes |-> {},
     adapters |-> {}, handlers |-> {}, focusEvents |-> <<>>, closedEvents |-> <<>>,
     sent |-> <<>>]

\* The record of a system step: the state it read, and the updates it sent.
Pass(sys, sent) ==
    [sys |-> sys, focus |-> lastFocus, changed |-> changed, removed |-> removed,
     nodes |-> nodes, adapters |-> adapters, handlers |-> handlers,
     focusEvents |-> focusEvents, closedEvents |-> closedEvents, sent |-> sent]

Init ==
    /\ nodes = {}
    /\ changed = {}
    /\ removed = {}
    /\ lastFocus = None
    /\ created = {}
    /\ adapters = {}
    /\ handlers = {}
    /\ focusEvents = <<>>
    /\ closedEvents = <<>>
    /\ queue = [w \in Windows |-> <<>>]
    /\ mutex = [w \in Windows |-> Free]
    /\ prodPc = [p \in Producers |-> "idle"]
    /\ prodReq = [p \in Producers |-> NoRequest]
    /\ nextReq = 1
    /\ pushed = [w \in Windows |-> <<>>]
    /\ orphans = {}
    /\ midDrain = {}
    /\ actions = <<>>
    /\ ran = {}
    /\ pollPc = "idle"
    /\ pollTodo = {}
    /\ pollCur = PrimaryWindow
    /\ pollSeen = {}
    /\ last = NoPass
    /\ poisoned = {}
    /\ focusGone = NoLoss
    /\ codec = NoCall

\* ------------------------------------------------------------ environment
\* The application gives an entity an AccessibilityNode.
InsertNode(e) ==
    /\ e \notin nodes
    /\ nodes' = nodes \cup {e}
    /\ changed' = changed \cup {e}
    /\ last' = NoPass
    /\ UNCHANGED <<removed, lastFocus, created, adapters, handlers, focusEvents,
                   closedEvents, ran>>
    /\ UNCHANGED <<queueVars, pollVars>>
    /\ UNCHANGED <<poisoned, focusGone, codec>>

\* The application mutates an entity's AccessibilityNode.
MutateNode(e) ==
    /\ e \in nodes
    /\ e \notin changed
    /\ changed' = changed \cup {e}
    /\ last' = NoPass
    /\ UNCHANGED <<nodes, removed, lastFocus, created, adapters, handlers, focusEvents,
                   closedEvents, ran>>
    /\ UNCHANGED <<queueVars, pollVars>>
    /\ UNCHANGED <<poisoned, focusGone, codec>>

\* The application removes an entity's AccessibilityNode (or despawns the entity).
RemoveNode(e) ==
    /\ e \in nodes
    /\ nodes' = nodes \ {e}
    /\ changed' = changed \ {e}
    /\ removed' = removed \cup {e}
    /\ last' = NoPass
    /\ UNCHANGED <<lastFocus, created, adapters, handlers, focusEvents, closedEvents, ran>>
    /\ UNCHANGED <<queueVars, pollVars>>
    /\ UNCHANGED <<poisoned, focusGone, codec>>

\* The application notes a focus change: LastFocus::from_entity.
NoteFocus(entity) ==
    /\ lastFocus # from_entity(entity)
    /\ lastFocus' = from_entity(entity)
    /\ focusGone' = NoLoss
    /\ last' = NoPass
    /\ UNCHANGED <<treeVars, created, adapters, handlers, focusEvents, closedEvents, ran>>
    /\ UNCHANGED <<queueVars, pollVars>>
    /\ UNCHANGED <<poisoned, codec>>

\* The window system opens a window: its adapter and its action handler are registered.
CreateWindow(w) ==
    /\ w \notin created
    /\ pollPc = "idle"
    /\ created' = created \cup {w}
    /\ adapters' = adapters \cup {w}
    /\ handlers' = handlers \cup {w}
    /\ last' = NoPass
    /\ UNCHANGED <<treeVars, lastFocus, focusEvents, closedEvents, ran>>
    /\ UNCHANGED <<queueVars, pollVars>>
    /\ UNCHANGED <<poisoned, focusGone, codec>>

\* The window system reports a focus transition.
SendFocused(w, focused) ==
    /\ Len(focusEvents) < MaxFocusEvents
    /\ focusEvents' = Append(focusEvents, [id |-> w, focused |-> focused])
    /\ last' = NoPass
    /\ UNCHANGED <<treeVars, lastFocus, created, adapters, handlers, closedEvents, ran>>
    /\ UNCHANGED <<queueVars, pollVars>>
    /\ UNCHANGED <<poisoned, focusGone, codec>>

\* The window system reports a closed window.
SendClosed(w) ==
    /\ Len(closedEvents) < MaxClosedEvents
    /\ closedEvents' = Append(closedEvents, w)
    /\ last' = NoPass
    /\ UNCHANGED <<treeVars, lastFocus, created, adapters, handlers, focusEvents, ran>>
    /\ UNCHANGED <<queueVars, pollVars>>
    /\ UNCHANGED <<poisoned, focusGone, codec>>

\* ---------------------------------------------------------------- systems
\* Mutant: every system takes the primary adapter to be registered.
get_primary_adapter_Assumed(ads) == TRUE

\* Adapters::get_primary_adapter: whether the primary window has an adapter.
get_primary_adapter(ads) == PrimaryWindow \in ads

\* The synthetic root entry of an update.
window_update(children) == [id |-> root_id, role |-> "Window", children |-> children]

\* Mutant: the tracked focus is ignored.
focus_id_AlwaysRoot(focus) == root_id

\* handle_focus, the identifier declared focused on focus gained.
focus_id(focus) == IF focus # None THEN focus ELSE root_id

\* handle_focus, the update sent for one event.
FocusUpdate(event, fid) ==
    [nodes |-> <<>>, focus |-> IF event.focused THEN fid ELSE None]

\* handle_focus, the updates sent for the pending events.
FocusUpdates(ads, events, fid) ==
    IF get_primary_adapter(ads)
    THEN [i \in 1..Len(events) |-> FocusUpdate(events[i], fid)]
    ELSE <<>>

handle_focus ==
    /\ "handle_focus" \notin ran
    /\ ran' = ran \cup {"handle_focus"}
    /\ last' = Pass("handle_focus", FocusUpdates(adapters, focusEvents, focus_id(lastFocus)))
    /\ focusEvents' = <<>>
    /\ UNCHANGED <<treeVars, lastFocus, created, adapters, handlers, closedEvents>>
    /\ UNCHANGED <<queueVars, pollVars>>
    /\ UNCHANGED <<poisoned, focusGone, codec>>

\* Mutant: the closed windows keep their entries.
AfterClosed_KeepsAll(registry, events) == registry

\* window_closed, what is left of a registry after the events.
AfterClosed(registry, events) == registry \ Range(events)

window_closed ==
    /\ "window_closed" \notin ran
    /\ pollPc = "idle"
    /\ ran' = ran \cup {"window_closed"}
    /\ adapters' = AfterClosed(adapters, closedEvents)
    /\ handlers' = AfterClosed(handlers, closedEvents)
    /\ closedEvents' = <<>>
    /\ last' = Pass("window_closed", <<>>)
    /\ UNCHANGED <<treeVars, lastFocus, created, focusEvents>>
    /\ UNCHANGED <<queueVars, pollVars>>
    /\ UNCHANGED <<poisoned, focusGone, codec>>

\* update_accessibility_nodes, the (identifier, node) pairs of the changed entities.
ChangedNodes(order) ==
    [i \in 1..Len(order) |-> [id |-> to_node_id(order[i]), role |-> "Node", children |-> <<>>]]

\* update_accessibility_nodes, the children of the root entry.
UpdateChildren(nodeVec) == [i \in 1..Len(nodeVec) |-> nodeVec[i].id]

\* Mutant: an update is sent for an empty changed set too.
UpdateSent_AlwaysSends(ads, nodeVec) ==
    IF get_primary_adapter(ads)
    THEN << [nodes |-> <<window_update(UpdateChildren(nodeVec))>> \o nodeVec,
             focus |-> None] >>
    ELSE <<>>

\* Mutant: the root entry is pushed after the changed nodes.
UpdateSent_RootLast(ads, nodeVec) ==
    IF get_primary_adapter(ads) /\ nodeVec # <<>>
    THEN << [nodes |-> nodeVec \o <<window_update(UpdateChildren(nodeVec))>>,
             focus |-> None] >>
    ELSE <<>>

\* Mutant: the update declares the tracked focus.
UpdateSent_WithFocus(ads, nodeVec) ==
    IF get_primary_adapter(ads) /\ nodeVec # <<>>
    THEN << [nodes |-> <<window_update(UpdateChildren(nodeVec))>> \o nodeVec,
             focus |-> lastFocus] >>
    ELSE <<>>

\* update_accessibility_nodes, the updates sent.
UpdateSent(ads, nodeVec) ==
    IF get_primary_adapter(ads) /\ nodeVec # <<>>
    THEN << [nodes |-> <<window_update(UpdateChildren(nodeVec))>> \o nodeVec,
             focus |-> None] >>
    ELSE <<>>

update_accessibility_nodes ==
    /\ "update_accessibility_nodes" \notin ran
    /\ ran' = ran \cup {"update_accessibility_nodes"}
    /\ \E order \in Orderings(changed) :
          last' = Pass("update_accessibility_nodes",
                       UpdateSent(adapters, ChangedNodes(order)))
    /\ changed' = {}
    /\ UNCHANGED <<nodes, removed, lastFocus, created, adapters, handlers, focusEvents,
                   closedEvents>>
    /\ UNCHANGED <<queueVars, pollVars>>
    /\ UNCHANGED <<poisoned, focusGone, codec>>

\* Mutant: the removed entities are compared with the identifier, not the entity it encodes.
FocusAfterRemoval_NoDecode(focus, rem) ==
    IF rem # {} /\ focus # None /\ focus \in rem THEN None ELSE focus

\* Mutant: the tracked focus is cleared only when there is an adapter to update.
FocusAfterRemoval_OnlyWithAdapter(focus, rem) ==
    IF /\ get_primary_adapter(adapters)
       /\ rem # {} /\ last_focus_entity(focus) # NoEntity /\ last_focus_entity(focus) \in rem
    THEN None
    ELSE focus

\* remove_accessibility_nodes, the tracked focus after the removed set was examined.
FocusAfterRemoval(focus, rem) ==
    IF rem # {} /\ last_focus_entity(focus) # NoEntity /\ last_focus_entity(focus) \in rem
    THEN None
    ELSE focus

\* Mutant: the remaining entities are listed by their handles, not their identifiers.
RemainingChildren_Unencoded(order) == [i \in 1..Len(order) |-> order[i]]

\* remove_accessibility_nodes, the children of the root entry.
RemainingChildren(order) == [i \in 1..Len(order) |-> to_node_id(order[i])]

\* Mutant: the update always declares the root focused.
RemovalFocus_AlwaysRoot(focus) == root_id

\* remove_accessibility_nodes, the focus field of the update.
RemovalFocus(focus) == IF focus # None THEN focus ELSE root_id

\* Mutant: the root is sent whether or not anything was removed.
RemovalSent_AlwaysSends(ads, rem, order, focus) ==
    IF get_primary_adapter(ads)
    THEN << [nodes |-> <<window_update(RemainingChildren(order))>>,
             focus |-> RemovalFocus(focus)] >>
    ELSE <<>>

\* remove_accessibility_nodes, the updates sent.
RemovalSent(ads, rem, order, focus) ==
    IF rem # {} /\ get_primary_adapter(ads)
    THEN << [nodes |-> <<window_update(RemainingChildren(order))>>,
             focus |-> RemovalFocus(focus)] >>
    ELSE <<>>

\* Mutant: the removal pass is registered in the same stage as the others.
PostUpdateReady_SameStage == TRUE

\* AccessibilityPlugin::build: the PostUpdate stage starts when every PreUpdate
\* system has finished.
PostUpdateReady == PreUpdate \subseteq ran /\ pollPc = "idle"

remove_accessibility_nodes ==
    /\ "remove_accessibility_nodes" \notin ran
    /\ PostUpdateReady
    /\ ran' = ran \cup {"remove_accessibility_nodes"}
    /\ lastFocus' = FocusAfterRemoval(lastFocus, removed)
    /\ focusGone' = IF removed # {} /\ last_focus_entity(lastFocus) \in removed
                    THEN [id |-> lastFocus, adapter |-> get_primary_adapter(adapters)]
                    ELSE focusGone
    /\ \E order \in Orderings(nodes) :
          last' = Pass("remove_accessibility_nodes",
                       RemovalSent(adapters, removed, order, lastFocus'))
    /\ removed' = {}
    /\ UNCHANGED <<nodes, changed, created, adapters, handlers, focusEvents, closedEvents>>
    /\ UNCHANGED <<queueVars, pollVars>>
    /\ UNCHANGED <<poisoned, codec>>

\* The cycle ends after the PostUpdate stage; the next one begins.
EndCycle ==
    /\ ran = PreUpdate \cup PostUpdate
    /\ ran' = {}
    /\ pollSeen' = {}
    /\ midDrain' = {}
    /\ last' = NoPass
    /\ UNCHANGED <<treeVars, lastFocus, created, adapters, handlers, focusEvents,
                   closedEvents>>
    /\ UNCHANGED <<queue, mutex, prodPc, prodReq, nextReq, pushed, orphans, actions,
                   pollPc, pollTodo, pollCur>>
    /\ UNCHANGED <<poisoned, focusGone, codec>>

\* ------------------------------------------------------- the action queues
\* Mutant: the buffer is entered without waiting for the mutex.
lock_NoWait(w) == TRUE

\* Mutex::lock on the queue of window w returns once nobody holds it.
lock(w) == mutex[w] = Free

\* The backend calls do_action(request) on the handler of window w:
\* self.0.lock().unwrap() returns once the mutex is free, and panics in the calling
\* thread when the mutex is poisoned.
do_action_lock(p, w) ==
    /\ prodPc[p] = "idle"
    /\ w \in created
    /\ nextReq <= MaxRequests
    /\ lock(w)
    /\ IF w \in poisoned
       THEN /\ prodPc' = [prodPc EXCEPT ![p] = "panicked"]
            /\ UNCHANGED <<mutex, prodReq, nextReq>>
       ELSE /\ mutex' = [mutex EXCEPT ![w] = p]
            /\ prodReq' = [prodReq EXCEPT ![p] = [id |-> nextReq, window |-> w]]
            /\ nextReq' = nextReq + 1
            /\ prodPc' = [prodPc EXCEPT ![p] = "push"]
    /\ last' = NoPass
    /\ UNCHANGED <<treeVars, lastFocus, created, adapters, handlers, focusEvents,
                   closedEvents, ran, queue, pushed, orphans, midDrain, actions, pollVars>>
    /\ UNCHANGED <<poisoned, focusGone, codec>>

\* Mutant: the request is stored at the head of the buffer.
PushBack_Front(buffer, request) == <<request>> \o buffer

\* do_action, the buffer after the request was stored.
PushBack(buffer, request) == Append(buffer, request)

\* do_action: requests.push_back(request), then the guard is dropped.
do_action_push(p) ==
    /\ prodPc[p] = "push"
    /\ LET w == prodReq[p].window
           r == prodReq[p].id
       IN /\ queue' = [queue EXCEPT ![w] = PushBack(queue[w], r)]
          /\ pushed' = [pushed EXCEPT ![w] = Append(pushed[w], r)]
          /\ orphans' = IF w \in handlers THEN orphans ELSE orphans \cup {r}
          /\ midDrain' = IF pollPc = "idle" THEN midDrain ELSE midDrain \cup {r}
          /\ mutex' = [mutex EXCEPT ![w] = Free]
    /\ prodPc' = [prodPc EXCEPT ![p] = "idle"]
    /\ prodReq' = [prodReq EXCEPT ![p] = NoRequest]
    /\ last' = NoPass
    /\ UNCHANGED <<treeVars, lastFocus, created, adapters, handlers, focusEvents,
                   closedEvents, ran, nextReq, actions, pollVars>>
    /\ UNCHANGED <<poisoned, focusGone, codec>>

\* A thread holding the guard of the queue of window w panics: the mutex is released
\* poisoned.
PoisonMutex(w) ==
    /\ w \in created
    /\ w \notin poisoned
    /\ lock(w)
    /\ poisoned' = poisoned \cup {w}
    /\ last' = NoPass
    /\ UNCHANGED <<treeVars, lastFocus, created, adapters, handlers, focusEvents,
                   closedEvents, ran>>
    /\ UNCHANGED <<queueVars, pollVars>>
    /\ UNCHANGED <<focusGone, codec>>

\* The requests queued in the registered handlers.
Queued(hs) == UNION {Range(queue[w]) : w \in hs}

\* poll_receivers starts: handlers.iter()
poll_start ==
    /\ "poll_receivers" \notin ran
    /\ ran' = ran \cup {"poll_receivers"}
    /\ pollTodo' = handlers
    /\ pollSeen' = Queued(handlers)
    /\ pollPc' = IF handlers = {} THEN "idle" ELSE "iter"
    /\ last' = Pass("poll_receivers", <<>>)
    /\ UNCHANGED <<treeVars, lastFocus, created, adapters, handlers, focusEvents,
                   closedEvents, queueVars, pollCur>>
    /\ UNCHANGED <<poisoned, focusGone, codec>>

\* poll_receivers: handler.lock().unwrap() on the next handler of the iteration. On a
\* poisoned mutex lock() returns an error and unwrap() panics: the system does not
\* return.
poll_lock(w) ==
    /\ pollPc = "iter"
    /\ w \in pollTodo
    /\ lock(w)
    /\ IF w \in poisoned
       THEN /\ pollPc' = "panicked"
            /\ UNCHANGED <<mutex, pollCur>>
       ELSE /\ mutex' = [mutex EXCEPT ![w] = MainThread]
            /\ pollCur' = w
            /\ pollPc' = "drain"
    /\ last' = NoPass
    /\ UNCHANGED <<treeVars, lastFocus, created, adapters, handlers, focusEvents,
                   closedEvents, ran, queue, prodPc, prodReq, nextReq, pushed, orphans, midDrain,
                   actions, pollTodo, pollSeen>>
    /\ UNCHANGED <<poisoned, focusGone, codec>>

\* poll_receivers, the request handler.pop_front() takes.
PopFront(buffer) == Head(buffer)

\* Mutant: pop_front() empties the buffer.
AfterPop_Clear(buffer) == <<>>

\* poll_receivers, the buffer after handler.pop_front().
AfterPop(buffer) == Tail(buffer)

\* poll_receivers: while let Some(event) = handler.pop_front() { actions.send(event) }
poll_pop ==
    /\ pollPc = "drain"
    /\ queue[pollCur] # <<>>
    /\ actions' = Append(actions, PopFront(queue[pollCur]))
    /\ queue' = [queue EXCEPT ![pollCur] = AfterPop(queue[pollCur])]
    /\ last' = NoPass
    /\ UNCHANGED <<treeVars, lastFocus, created, adapters, handlers, focusEvents,
                   closedEvents, ran, mutex, prodPc, prodReq, nextReq, pushed, orphans, midDrain,
                   pollVars>>
    /\ UNCHANGED <<poisoned, focusGone, codec>>

\* poll_receivers: pop_front() returned None; the guard is dropped and the iteration goes on.
poll_unlock ==
    /\ pollPc = "drain"
    /\ queue[pollCur] = <<>>
    /\ mutex' = [mutex EXCEPT ![pollCur] = Free]
    /\ pollTodo' = pollTodo \ {pollCur}
    /\ pollPc' = IF pollTodo' = {} THEN "idle" ELSE "iter"
    /\ pollCur' = PrimaryWindow
    /\ last' = NoPass
    /\ UNCHANGED <<treeVars, lastFocus, created, adapters, handlers, focusEvents,
                   closedEvents, ran, queue, prodPc, prodReq, nextReq, pushed, orphans, midDrain,
                   actions, pollSeen>>
    /\ UNCHANGED <<poisoned, focusGone, codec>>

\* ------------------------------------------------------------ specifications
\* AccessibilityPlugin::build: four systems in PreUpdate, one in PostUpdate, no order
\* declared among the four. poll_receivers is listed by its steps; its pop_front step
\* is listed with the specification that queues requests.
Systems ==
    \/ handle_focus
    \/ window_closed
    \/ poll_start
    \/ (\E w \in Windows : poll_lock(w))
    \/ poll_unlock
    \/ update_accessibility_nodes
    \/ remove_accessibility_nodes
    \/ EndCycle

\* The tree synchroniser under a changing entity store and a moving focus. No request
\* is queued, so every drain of poll_receivers finds its buffers empty.
NextTree ==
    \/ Systems
    \/ (\E e \in Entities : InsertNode(e))
    \/ (\E e \in Entities : MutateNode(e))
    \/ (\E e \in Entities : RemoveNode(e))
    \/ (\E e \in Entities \cup {NoEntity} : NoteFocus(e))
    \/ (\E w \in Windows : CreateWindow(w))

SpecTree == Init /\ [][NextTree]_vars

\* The focus tracker under window focus transitions, window closure and a moving focus.
NextFocus ==
    \/ Systems
    \/ (\E e \in Entities \cup {NoEntity} : NoteFocus(e))
    \/ (\E w \in Windows : CreateWindow(w))
    \/ (\E w \in Windows, focused \in BOOLEAN : SendFocused(w, focused))
    \/ (\E w \in Windows : SendClosed(w))

SpecFocus == Init /\ [][NextFocus]_vars

\* The action queues under concurrent backend threads and window closure.
NextQueue ==
    \/ Systems
    \/ poll_pop
    \/ (\E w \in Windows : CreateWindow(w))
    \/ (\E w \in Windows : SendClosed(w))
    \/ (\E p \in Producers, w \in Windows : do_action_lock(p, w))
    \/ (\E p \in Producers : do_action_push(p))

SpecQueue == Init /\ [][NextQueue]_vars

\* The tree synchroniser and the focus tracker together: entities gain and lose nodes
\* while the focus moves and the windows report focus transitions, one at a time. Only
\* the primary window is opened.
NextSync ==
    \/ Systems
    \/ (\E e \in Entities : InsertNode(e))
    \/ (\E e \in Entities : RemoveNode(e))
    \/ (\E e \in Entities \cup {NoEntity} : NoteFocus(e))
    \/ CreateWindow(PrimaryWindow)
    \/ (\E w \in Windows, focused \in BOOLEAN :
            focusEvents = <<>> /\ SendFocused(w, focused))

SpecSync == Init /\ [][NextSync]_vars

\* The action queues of windows that stay open, under concurrent backend threads.
NextLive ==
    \/ Systems
    \/ poll_pop
    \/ (\E w \in Windows : CreateWindow(w))
    \/ (\E p \in Producers, w \in Windows : do_action_lock(p, w))
    \/ (\E p \in Producers : do_action_push(p))

\* The cycles keep running: the schedule goes on running the systems, and a backend
\* thread that holds a mutex stores its request and drops the guard.
FairLive ==
    /\ WF_vars(Systems \/ poll_pop)
    /\ \A p \in Producers : WF_vars(do_action_push(p))

SpecLive == Init /\ [][NextLive]_vars /\ FairLive

\* The action queues when a mutex can be poisoned. A panic of poll_receivers ends the
\* schedule.
NextPoison ==
    \/ (pollPc # "panicked" /\ Systems)
    \/ poll_pop
    \/ (\E w \in Windows : CreateWindow(w))
    \/ (\E w \in Windows : PoisonMutex(w))
    \/ (\E p \in Producers, w \in Windows : do_action_lock(p, w))
    \/ (\E p \in Producers : do_action_push(p))

SpecPoison == Init /\ [][NextPoison]_vars

\* ------------------------------------------------------------ codec calls
Handles == 0..MaxHandle

\* A call of Entity::to_node_id on the entity of bits h.
CallToNodeId(h) ==
    /\ codec.pc # "panicked"
    /\ codec' = [pc |-> IF to_node_id(h) = Panic THEN "panicked" ELSE "encoded",
                 h |-> h, id |-> to_node_id(h), back |-> NoEntity]
    /\ UNCHANGED <<treeVars, lastFocus, created, adapters, handlers, focusEvents,
                   closedEvents, ran, last>>
    /\ UNCHANGED <<queueVars, pollVars>>
    /\ UNCHANGED <<poisoned, focusGone>>

\* A call of from_node_id on the identifier to_node_id returned.
CallFromNodeId ==
    /\ codec.pc = "encoded"
    /\ codec' = [codec EXCEPT !.pc = "decoded", !.back = from_node_id(codec.id)]
    /\ UNCHANGED <<treeVars, lastFocus, created, adapters, handlers, focusEvents,
                   closedEvents, ran, last>>
    /\ UNCHANGED <<queueVars, pollVars>>
    /\ UNCHANGED <<poisoned, focusGone>>

\* A call of LastFocus::from_entity. The assignment is not reached when to_node_id
\* panics.
CallFromEntity(entity) ==
    /\ codec.pc # "panicked"
    /\ IF from_entity(entity) = Panic
       THEN /\ codec' = [pc |-> "panicked", h |-> entity, id |-> Panic, back |-> NoEntity]
            /\ UNCHANGED lastFocus
       ELSE /\ codec' = [pc |-> "stored", h |-> entity, id |-> from_entity(entity),
                         back |-> NoEntity]
            /\ lastFocus' = from_entity(entity)
    /\ UNCHANGED <<treeVars, created, adapters, handlers, focusEvents, closedEvents, ran,
                   last>>
    /\ UNCHANGED <<queueVars, pollVars>>
    /\ UNCHANGED <<poisoned, focusGone>>

\* A call of LastFocus::entity after LastFocus::from_entity.
CallEntity ==
    /\ codec.pc = "stored"
    /\ codec' = [codec EXCEPT !.pc = "read", !.back = last_focus_entity(lastFocus)]
    /\ UNCHANGED <<treeVars, lastFocus, created, adapters, handlers, focusEvents,
                   closedEvents, ran, last>>
    /\ UNCHANGED <<queueVars, pollVars>>
    /\ UNCHANGED <<poisoned, focusGone>>

\* The codec and LastFocus called with every handle of the domain.
NextCodec ==
    \/ (\E h \in Handles : CallToNodeId(h))
    \/ CallFromNodeId
    \/ (\E entity \in Handles \cup {NoEntity} : CallFromEntity(entity))
    \/ CallEntity

SpecCodec == Init /\ [][NextCodec]_vars

\* ------------------------------------------------------------------ claims
UpdatePass == last.sys = "update_accessibility_nodes"
RemovalPass == last.sys = "remove_accessibility_nodes"
FocusPass == last.sys = "handle_focus"
ClosedPass == last.sys = "window_closed"

\* The identifiers of the entities of S.
Encoded(S) == {to_node_id(e) : e \in S}

\* The children of the root entry of the only update the pass sent.
RootChildren == last.sent[1].nodes[1].children

\* C1: after an update pass with a primary adapter and a non-empty changed set, the
\* children of the root entry are the identifiers of all entities holding a node.
C1_UpdateRootListsAllNodes ==
    (UpdatePass /\ get_primary_adapter(last.adapters) /\ last.changed # {})
        => /\ Len(last.sent) = 1
           /\ Range(RootChildren) = Encoded(last.nodes)

\* C2 as stated: after a removal pass with a primary adapter and a non-empty removed
\* set, no child of the root entry encodes an entity of the removed set.
C2_NoRemovedChild ==
    (RemovalPass /\ get_primary_adapter(last.adapters) /\ last.removed # {})
        => /\ Len(last.sent) = 1
           /\ \A e \in last.removed : to_node_id(e) \notin Range(RootChildren)

\* C2 amended: after such a removal pass the children of the root entry are exactly the
\* identifiers of the entities holding a node at the time of the pass, each once; an
\* entity of the removed set is listed only if it holds a node again.
C2_RemovalRootListsRemaining ==
    (RemovalPass /\ get_primary_adapter(last.adapters) /\ last.removed # {})
        => /\ Len(last.sent) = 1
           /\ Range(RootChildren) = Encoded(nodes)
           /\ Len(RootChildren) = Cardinality(nodes)
           /\ \A e \in last.removed \ nodes : to_node_id(e) \notin Range(RootChildren)

C2_Witness ==
    /\ RemovalPass
    /\ get_primary_adapter(last.adapters)
    /\ last.removed \ nodes # {}
    /\ nodes # {}
    /\ Len(last.sent) = 1

\* C3: when the removed set of a removal pass holds the entity whose identifier is the
\* tracked focus, the pass leaves LastFocus absent and the update it sends declares the
\* root focused.
C3_FocusedEntityRemoved ==
    (RemovalPass /\ \E e \in last.removed : to_node_id(e) = last.focus)
        => /\ lastFocus = None
           /\ get_primary_adapter(last.adapters)
                 => (Len(last.sent) = 1 /\ last.sent[1].focus = root_id)

C3_Witness ==
    /\ RemovalPass
    /\ \E e \in last.removed : to_node_id(e) = last.focus
    /\ get_primary_adapter(last.adapters)
    /\ lastFocus = None
    /\ last.sent[1].focus = root_id

\* C4: when the removed set of a removal pass is non-empty and holds no entity whose
\* identifier is the tracked focus, the pass leaves LastFocus as it was and the update
\* it sends declares that tracked focus focused.
C4_OtherEntityRemoved ==
    (RemovalPass /\ last.removed # {} /\ \A e \in last.removed : to_node_id(e) # last.focus)
        => /\ lastFocus = last.focus
           /\ (get_primary_adapter(last.adapters) /\ last.focus # None)
                 => (Len(last.sent) = 1 /\ last.sent[1].focus = last.focus)

C4_Witness ==
    /\ RemovalPass
    /\ last.removed # {}
    /\ last.focus # None
    /\ \A e \in last.removed : to_node_id(e) # last.focus
    /\ get_primary_adapter(last.adapters)
    /\ last.sent[1].focus = last.focus
    /\ lastFocus = last.focus

\* The requests of window w among those sent to the application, in the order sent.
Forwarded(w) == SelectSeq(actions, LAMBDA r : r \in Range(pushed[w]))

\* C5: per queue, the requests sent to the application followed by those still queued
\* are the requests in the order they were stored: none is sent twice, out of order,
\* or missing.
C5_ForwardedInPushOrder ==
    /\ \A w \in Windows : pushed[w] = Forwarded(w) \o queue[w]
    /\ \A i, j \in 1..Len(actions) : i # j => actions[i] # actions[j]
    /\ \A r \in Range(actions) : \E w \in Windows : r \in Range(pushed[w])

C5_Witness ==
    \E w \in Windows : Len(pushed[w]) >= 2 /\ Forwarded(w) = pushed[w]

\* C6: the buffer of a queue is entered only by the holder of its mutex, under every
\* interleaving each stored request is once among the sent and the queued ones, and
\* when a drain ends every request that was queued in a registered handler when it
\* began has been sent (so a request stored during a drain goes out with that drain or
\* the next).
C6_PushDrainInterleaving ==
    /\ \A p \in Producers : prodPc[p] = "push" => mutex[prodReq[p].window] = p
    /\ pollPc = "drain" => mutex[pollCur] = MainThread
    /\ \A w \in Windows :
          Len(pushed[w]) = Len(Forwarded(w)) + Len(queue[w])
          /\ Range(pushed[w]) = Range(Forwarded(w)) \cup Range(queue[w])
    /\ ("poll_receivers" \in ran /\ pollPc = "idle") => pollSeen \subseteq Range(actions)

C6_Witness ==
    /\ "poll_receivers" \in ran
    /\ pollPc = "idle"
    /\ pollSeen # {}
    /\ midDrain \cap Range(actions) # {}

\* C7: after window_closed has read a WindowClosed event for a window, Adapters and
\* Handlers hold no entry for it and every other entry is as before (a window with no
\* entry changes nothing); no request stored in the handler of a window without an
\* entry is ever sent to the application.
C7_ClosedWindowForgotten ==
    /\ ClosedPass
          => /\ adapters = last.adapters \ Range(last.closedEvents)
             /\ handlers = last.handlers \ Range(last.closedEvents)
             /\ \A w \in Range(last.closedEvents) : w \notin adapters /\ w \notin handlers
    /\ orphans \cap Range(actions) = {}

C7_Witness ==
    /\ ClosedPass
    /\ Range(last.closedEvents) \cap last.handlers # {}
    /\ Range(last.closedEvents) \cap last.adapters # {}
    /\ orphans # {}

\* The focus field handle_focus is to send for an event, given the tracked focus.
ExpectedFocus(event, tracked) ==
    IF event.focused THEN (IF tracked # None THEN tracked ELSE root_id) ELSE None

\* C8: with a primary adapter, handle_focus sends one update per event read, in event
\* order; the update for an event of the primary window declares the tracked focus (the
\* root when there is none) on focus gained and no focus on focus lost.
C8_FocusTransitionUpdates ==
    (FocusPass /\ get_primary_adapter(last.adapters))
        => /\ Len(last.sent) = Len(last.focusEvents)
           /\ \A i \in 1..Len(last.focusEvents) :
                 last.focusEvents[i].id = PrimaryWindow
                    => /\ last.sent[i].nodes = <<>>
                       /\ last.sent[i].focus = ExpectedFocus(last.focusEvents[i], last.focus)

C8_Witness ==
    /\ FocusPass
    /\ get_primary_adapter(last.adapters)
    /\ Len(last.focusEvents) = 2
    /\ last.focusEvents[1] = [id |-> PrimaryWindow, focused |-> TRUE]
    /\ last.focusEvents[2] = [id |-> PrimaryWindow, focused |-> FALSE]
    /\ last.focus = None
    /\ last.sent[1].focus = root_id
    /\ last.sent[2].focus = None

\* C9: handle_focus sends updates only for the events of the primary window.
C9_OnlyPrimaryWindowEvents ==
    FocusPass
        => Len(last.sent) <= Len(SelectSeq(last.focusEvents, LAMBDA ev : ev.id = PrimaryWindow))

\* C10 as stated: in every cycle handle_focus runs first, then window_closed, then
\* poll_receivers, then update_accessibility_nodes, then remove_accessibility_nodes.
C10_FixedOrder ==
    /\ "window_closed" \in ran => "handle_focus" \in ran
    /\ "poll_receivers" \in ran => "window_closed" \in ran
    /\ "update_accessibility_nodes" \in ran => "poll_receivers" \in ran
    /\ "remove_accessibility_nodes" \in ran => "update_accessibility_nodes" \in ran

\* C10 amended: remove_accessibility_nodes runs only after handle_focus, window_closed,
\* poll_receivers and update_accessibility_nodes have all run and finished in the cycle.
C10_RemovalAfterPreUpdate ==
    /\ "remove_accessibility_nodes" \in ran => (PreUpdate \subseteq ran /\ pollPc = "idle")
    /\ RemovalPass => ran = PreUpdate \cup PostUpdate

C10_Witness ==
    /\ RemovalPass
    /\ ran = PreUpdate \cup PostUpdate
    /\ last.removed # {}

\* C11: an update pass whose changed set is empty sends no update.
C11_EmptyChangedSetSendsNothing ==
    (UpdatePass /\ last.changed = {}) => last.sent = <<>>

C11_Witness ==
    /\ UpdatePass
    /\ last.changed = {}
    /\ last.nodes # {}
    /\ get_primary_adapter(last.adapters)
    /\ last.sent = <<>>

\* The identifiers of the entries of the update after the first.
ChangedIds == [i \in 1..(Len(last.sent[1].nodes) - 1) |-> last.sent[1].nodes[i + 1].id]

\* C12: an update pass with a primary adapter and k >= 1 changed nodes sends one update
\* of k + 1 entries: the root first, then one entry per changed entity with its
\* identifier.
C12_RootFirstThenChangedNodes ==
    (UpdatePass /\ get_primary_adapter(last.adapters) /\ last.changed # {})
        => /\ Len(last.sent) = 1
           /\ Len(last.sent[1].nodes) = Cardinality(last.changed) + 1
           /\ last.sent[1].nodes[1].id = root_id
           /\ last.sent[1].nodes[1].role = "Window"
           /\ Range(ChangedIds) = Encoded(last.changed)
           /\ \A i \in 1..Len(ChangedIds) : last.sent[1].nodes[i + 1].role = "Node"

C12_Witness ==
    /\ UpdatePass
    /\ get_primary_adapter(last.adapters)
    /\ Cardinality(last.changed) = 2
    /\ Len(last.sent) = 1
    /\ Len(last.sent[1].nodes) = 3
    /\ last.sent[1].nodes[1].id = root_id

\* C17: with a primary adapter the removal pass sends an update exactly when its removed
\* set is non-empty, a single one whose only entry is the root; with an empty removed
\* set it sends nothing and leaves LastFocus as it was.
C17_RemovalSendsRootOnly ==
    RemovalPass
        => /\ get_primary_adapter(last.adapters)
                 => (last.sent # <<>> <=> last.removed # {})
           /\ last.sent # <<>>
                 => /\ Len(last.sent) = 1
                    /\ Len(last.sent[1].nodes) = 1
                    /\ last.sent[1].nodes[1].id = root_id
                    /\ last.sent[1].nodes[1].role = "Window"
           /\ last.removed = {} => (last.sent = <<>> /\ lastFocus = last.focus)

C17_Witness ==
    /\ RemovalPass
    /\ get_primary_adapter(last.adapters)
    /\ last.removed = {}
    /\ last.focus # None
    /\ nodes # {}
    /\ last.sent = <<>>

\* C20: the update pass leaves LastFocus as it was, and no update it sends declares a
\* focus, whatever LastFocus holds.
C20_UpdatePassIgnoresFocus ==
    UpdatePass
        => /\ lastFocus = last.focus
           /\ \A i \in 1..Len(last.sent) : last.sent[i].focus = None

C20_Witness ==
    /\ UpdatePass
    /\ last.focus # None
    /\ lastFocus = last.focus
    /\ Len(last.sent) = 1
    /\ last.sent[1].focus = None

\* C13: without an adapter for the primary window, handle_focus,
\* update_accessibility_nodes and remove_accessibility_nodes send no update, whatever
\* focus events, changed set or removed set they find, and they complete: the events
\* are consumed and the removed set is taken.
C13_NoAdapterNoUpdate ==
    ((FocusPass \/ UpdatePass \/ RemovalPass) /\ PrimaryWindow \notin last.adapters)
        => /\ last.sent = <<>>
           /\ FocusPass => focusEvents = <<>>
           /\ RemovalPass => removed = {}
           /\ last.sys \in ran

C13_Witness ==
    /\ RemovalPass
    /\ PrimaryWindow \notin last.adapters
    /\ last.removed # {}
    /\ last.focus # None
    /\ "handle_focus" \in ran
    /\ "update_accessibility_nodes" \in ran
    /\ last.sent = <<>>

\* C18: once a removal pass has processed the removal of the focused entity, and until a
\* new focus is noted, LastFocus is empty and handle_focus declares the root focused for
\* every focus-gained event, never the removed entity, whether or not there was a
\* primary adapter when the removal pass ran.
C18_RemovedFocusFallsBackToRoot ==
    focusGone.id # None
        => /\ lastFocus = None
           /\ (FocusPass /\ get_primary_adapter(last.adapters))
                 => /\ Len(last.sent) = Len(last.focusEvents)
                    /\ \A i \in 1..Len(last.focusEvents) :
                          last.focusEvents[i].focused
                              => /\ last.sent[i].focus = root_id
                                 /\ last.sent[i].focus # focusGone.id

C18_Witness ==
    /\ FocusPass
    /\ focusGone.id # None
    /\ ~focusGone.adapter
    /\ get_primary_adapter(last.adapters)
    /\ \E i \in 1..Len(last.focusEvents) :
          last.focusEvents[i].focused /\ last.sent[i].focus = root_id

\* C14: decoding the identifier of a handle gives the handle back, for every handle of
\* the domain, and LastFocus::entity returns the entity LastFocus::from_entity stored.
C14_RoundTripIdentity ==
    codec.pc \in {"decoded", "read", "panicked"} => codec.back = codec.h

\* C15: to_node_id returns a non-zero identifier for every handle of the domain, the
\* greatest included.
C15_EncodeTotal ==
    codec.pc \in {"encoded", "panicked"} => codec.id \in 1..HandleLimit

\* C16: poll_receivers passes over a queue whose mutex is poisoned: it forwards nothing
\* from it and returns, and the cycle goes on.
C16_PoisonedQueueSkipped ==
    pollPc # "panicked"

\* C19: while the cycles keep running and the handlers stay registered, a request stored
\* in the queue of a registered window is eventually forwarded, at the latest by the first drain
\* that starts after it was stored; and when a drain ends during which no request was
\* stored, the queue of every registered window is empty.
C19_EveryRequestForwarded ==
    /\ \A r \in 1..MaxRequests :
          (r \in Queued(handlers)) ~> (r \in Range(actions))
    /\ []((pollPc = "idle" /\ "poll_receivers" \in ran) => pollSeen \subseteq Range(actions))
    /\ [][(pollPc # "idle" /\ pollPc' = "idle" /\ midDrain' = {})
              => \A w \in handlers' : queue'[w] = <<>>]_vars

C19_Witness ==
    /\ pollPc = "idle"
    /\ "poll_receivers" \in ran
    /\ Cardinality(pollSeen) = MaxRequests
    /\ pollSeen \subseteq Range(actions)
    /\ midDrain = {}
    /\ \A w \in handlers : queue[w] = <<>>

====
